---- MODULE Spec2Model ----
(***************************************************************************)
(* Model of the type-level algebra of src/src/index.ts (commonprops):     *)
(* IsUpcastable, GetUpcastable, CommonStrictPairs, CommonUpcastPairs,     *)
(* CommonStrictProps and CommonUpcastProps.                               *)
(*                                                                         *)
(* A TypeScript type is modelled by the set of values that inhabit it     *)
(* (a set of atoms), so `S extends T` in a non-distributive position is   *)
(* S \subseteq T, a union is set union and `never` is the empty set.      *)
(* An object type (a schema) is a function from its property names to     *)
(* the types of the properties.                                           *)
(***************************************************************************)
EXTENDS Naturals, Sequences, FiniteSets, TLC

(***************************************************************************)
(* The universe of values.  "s:*" and "n:*" stand for every string and    *)
(* number that is not named; "o:xy" is an object value {x:1, y:2}, which  *)
(* inhabits both {x:1} and {x:1; y:2} (width subtyping).                  *)
(***************************************************************************)
StringT == {"s:cat", "s:dog", "s:*"}
NumberT == {"n:1", "n:2", "n:*"}
TrueT == {"b:true"}
FalseT == {"b:false"}
BooleanT == TrueT \cup FalseT
Never == {}

CatT == {"s:cat"}
DogT == {"s:dog"}
OneT == {"n:1"}
TwoT == {"n:2"}
CatOrDogT == CatT \cup DogT
CatOrNumberT == CatT \cup NumberT
ObjXT == {"o:x", "o:xy"}
ObjXYT == {"o:xy"}
StrArrT == {"a:str"}
NullT == {"null"}

\* The three primitive base types, the singleton literal types, and the rest.
Primitives == {StringT, NumberT, BooleanT}
Literals == {CatT, DogT, OneT, TwoT, TrueT, FalseT}
Opaques == {CatOrDogT, CatOrNumberT, ObjXT, ObjXYT, StrArrT, NullT}
Descriptors == Primitives \cup Literals \cup Opaques

\* Mutant: two types are related as soon as they share a value.
ExtendsOverlap(S, T) == S \cap T # {}

\* `S extends T` where S is not a naked type parameter (no distribution).
Extends(S, T) == S \subseteq T

(***************************************************************************)
(* IsUpcastable<T>: the tuple wrapping [T] extends [string] switches      *)
(* distribution off, so the test is on T as a whole.  The result is the   *)
(* type `true` or the type `false`.                                       *)
(***************************************************************************)
\* Mutant: T is a naked type parameter, so the test distributes over a union.
IsUpcastableDistributive(T) ==
    IF \A a \in T : \E l \in {{"s:cat"}, {"s:dog"}, {"n:1"}, {"n:2"}, {"b:true"}, {"b:false"}} : a \in l
    THEN {"b:true"}
    ELSE {"b:false"}

\* Mutant: the boolean branch lacks the test for the whole of boolean.
IsUpcastableAnyBoolean(T) ==
    IF Extends(T, StringT) THEN (IF Extends(StringT, T) THEN FalseT ELSE TrueT)
    ELSE IF Extends(T, NumberT) THEN (IF Extends(NumberT, T) THEN FalseT ELSE TrueT)
    ELSE IF Extends(T, BooleanT) THEN TrueT
    ELSE FalseT

IsUpcastable(T) ==
    IF Extends(T, StringT) THEN (IF Extends(StringT, T) THEN FalseT ELSE TrueT)
    ELSE IF Extends(T, NumberT) THEN (IF Extends(NumberT, T) THEN FalseT ELSE TrueT)
    ELSE IF Extends(T, BooleanT) THEN
        (IF Extends(TrueT, T)
         THEN (IF Extends(FalseT, T) THEN FalseT ELSE TrueT)
         ELSE TrueT)
    ELSE FalseT

(***************************************************************************)
(* GetUpcastable<T>: T is a naked type parameter, so the conditional      *)
(* distributes over the members of a union and the results are unioned.   *)
(* Every member of a union lies within one block of atoms, so             *)
(* distributing over atoms gives the union TypeScript computes.           *)
(***************************************************************************)
\* Mutant: numbers and booleans are given the base type string.
GetUpcastableMemberAllString(M) ==
    IF Extends(M, StringT) THEN StringT
    ELSE IF Extends(M, NumberT) THEN StringT
    ELSE IF Extends(M, BooleanT) THEN StringT
    ELSE Never

\* Mutant: the boolean branch is missing.
GetUpcastableMemberNoBoolean(M) ==
    IF Extends(M, StringT) THEN StringT
    ELSE IF Extends(M, NumberT) THEN NumberT
    ELSE Never

GetUpcastableMember(M) ==
    IF Extends(M, StringT) THEN StringT
    ELSE IF Extends(M, NumberT) THEN NumberT
    ELSE IF Extends(M, BooleanT) THEN BooleanT
    ELSE Never

\* Mutant: the conditional does not distribute over the members of a union.
GetUpcastableWhole(T) == GetUpcastableMember(T)

GetUpcastable(T) == UNION {GetUpcastableMember({a}) : a \in T}

\* keyof T & keyof U
SharedKeys(T, U) == DOMAIN T \cap DOMAIN U

(***************************************************************************)
(* CommonStrictPairs<T, U>.  The `as` clause remaps K to K or to never;   *)
(* a key remapped to never is not a property of the mapped type.          *)
(***************************************************************************)
\* Mutant: the key filter tests one direction only.
StrictKeyOneWay(T, U, K) ==
    IF Extends(T[K], U[K]) THEN {K} ELSE Never

StrictKey(T, U, K) ==
    IF Extends(T[K], U[K])
    THEN (IF Extends(U[K], T[K]) THEN {K} ELSE Never)
    ELSE Never

StrictValue(T, U, K) ==
    IF Extends(T[K], U[K]) THEN T[K]
    ELSE IF Extends(U[K], T[K]) THEN U[K]
    ELSE Never

\* Mutant: no `as` clause; a key that fails the test stays, with type never.
CommonStrictPairsNoKeyFilter(T, U) ==
    [K \in SharedKeys(T, U) |-> StrictValue(T, U, K)]

\* Mutant: the keys U has and T lacks are kept, with the type U gives them.
CommonStrictPairsKeepsUnshared(T, U) ==
    [K \in {k \in DOMAIN U : k \in DOMAIN T => (Extends(T[k], U[k]) /\ Extends(U[k], T[k]))}
        |-> U[K]]

\* Mutant: the mapped type ranges over keyof T; a key U lacks is kept.
CommonStrictPairsOverT(T, U) ==
    [K \in {k \in DOMAIN T : k \in DOMAIN U => StrictKey(T, U, k) # Never} |-> T[K]]

CommonStrictPairs(T, U) ==
    [K \in UNION {StrictKey(T, U, K) : K \in SharedKeys(T, U)} |-> StrictValue(T, U, K)]

(***************************************************************************)
(* CommonUpcastPairs<T, U>.                                               *)
(***************************************************************************)
\* Mutant: the key filter lacks the upcasting case.
UpcastKeyNoUpcast(T, U, K) ==
    IF Extends(T[K], U[K]) THEN {K}
    ELSE IF Extends(U[K], T[K]) THEN {K}
    ELSE Never

\* Mutant: the branches of the exact-match test are swapped to never.
UpcastKeyNoExact(T, U, K) ==
    IF Extends(T[K], U[K])
    THEN (IF Extends(U[K], T[K]) THEN Never ELSE {K})
    ELSE IF Extends(U[K], T[K]) THEN {K}
    ELSE IF Extends(IsUpcastable(T[K]), TrueT)
    THEN (IF Extends(IsUpcastable(U[K]), TrueT)
          THEN (IF Extends(GetUpcastable(T[K]), GetUpcastable(U[K])) THEN {K} ELSE Never)
          ELSE Never)
    ELSE Never

UpcastKey(T, U, K) ==
    IF Extends(T[K], U[K])
    THEN (IF Extends(U[K], T[K]) THEN {K} ELSE {K})
    ELSE IF Extends(U[K], T[K]) THEN {K}
    ELSE IF Extends(IsUpcastable(T[K]), TrueT)
    THEN (IF Extends(IsUpcastable(U[K]), TrueT)
          THEN (IF Extends(GetUpcastable(T[K]), GetUpcastable(U[K])) THEN {K} ELSE Never)
          ELSE Never)
    ELSE Never

\* The value of the upcasting case, shared by the mutants below.
UpcastCaseValue(T, U, K) ==
    IF Extends(IsUpcastable(T[K]), TrueT)
    THEN (IF Extends(IsUpcastable(U[K]), TrueT)
          THEN (IF Extends(GetUpcastable(T[K]), GetUpcastable(U[K]))
                THEN GetUpcastable(T[K]) ELSE Never)
          ELSE Never)
    ELSE Never

\* Mutant: T[K] is kept whenever the two sides are comparable.
UpcastValueKeepsT(T, U, K) ==
    IF Extends(T[K], U[K]) THEN T[K]
    ELSE IF Extends(U[K], T[K]) THEN T[K]
    ELSE UpcastCaseValue(T, U, K)

\* Mutant: the upcasting case keeps T[K] instead of its base type.
UpcastValueFirstInCase(T, U, K) ==
    IF Extends(T[K], U[K])
    THEN (IF Extends(U[K], T[K]) THEN T[K] ELSE U[K])
    ELSE IF Extends(U[K], T[K]) THEN T[K]
    ELSE IF UpcastCaseValue(T, U, K) # Never THEN T[K]
    ELSE Never

\* Mutant: the more specific side is kept.
UpcastValueKeepsSpecific(T, U, K) ==
    IF Extends(T[K], U[K]) THEN T[K]
    ELSE IF Extends(U[K], T[K]) THEN U[K]
    ELSE UpcastCaseValue(T, U, K)

\* Mutant: U[K] is kept whenever the two sides are comparable.
UpcastValueKeepsU(T, U, K) ==
    IF Extends(T[K], U[K]) THEN U[K]
    ELSE IF Extends(U[K], T[K]) THEN U[K]
    ELSE UpcastCaseValue(T, U, K)

\* Mutant: the upcasting case is tried before the exact match.
UpcastValueWidensFirst(T, U, K) ==
    IF UpcastCaseValue(T, U, K) # Never THEN UpcastCaseValue(T, U, K)
    ELSE IF Extends(T[K], U[K])
    THEN (IF Extends(U[K], T[K]) THEN T[K] ELSE U[K])
    ELSE IF Extends(U[K], T[K]) THEN T[K]
    ELSE Never

UpcastValue(T, U, K) ==
    IF Extends(T[K], U[K])
    THEN (IF Extends(U[K], T[K]) THEN T[K] ELSE U[K])
    ELSE IF Extends(U[K], T[K]) THEN T[K]
    ELSE IF Extends(IsUpcastable(T[K]), TrueT)
    THEN (IF Extends(IsUpcastable(U[K]), TrueT)
          THEN (IF Extends(GetUpcastable(T[K]), GetUpcastable(U[K]))
                THEN GetUpcastable(T[K]) ELSE Never)
          ELSE Never)
    ELSE Never

\* Mutant: every kept key takes the type it has in U.
CommonUpcastPairsKeepsSecond(T, U) ==
    [K \in UNION {UpcastKey(T, U, K) : K \in SharedKeys(T, U)} |-> U[K]]

CommonUpcastPairs(T, U) ==
    [K \in UNION {UpcastKey(T, U, K) : K \in SharedKeys(T, U)} |-> UpcastValue(T, U, K)]

(***************************************************************************)
(* CommonStrictPairs<T, U> as the revision part_000 declares it: no `as`  *)
(* clause, and the value is the side that extends the other.              *)
(***************************************************************************)
CommonStrictPairsPart000(T, U) ==
    [K \in SharedKeys(T, U) |->
        IF Extends(T[K], U[K]) THEN T[K]
        ELSE IF Extends(U[K], T[K]) THEN U[K]
        ELSE Never]

(***************************************************************************)
(* Inputs of the pairwise merges: every object type over two property     *)
(* names whose property types are drawn from Descriptors.                 *)
(***************************************************************************)
Keys == {"name", "type"}
Schemas == UNION {[ks -> Descriptors] : ks \in SUBSET Keys}

\* {} : the object type with no property, and the default of Empty.
EmptyObject == [K \in {} |-> Never]

(***************************************************************************)
(* Inputs of the folds: tuples of at most MaxLen object types.  The       *)
(* property "type" ranges over literals, primitives and a union; "name"   *)
(* over a primitive and a literal; either property may be missing.        *)
(***************************************************************************)
MaxLen == 3
TypeFieldDescriptors == {CatT, DogT, StringT, OneT, CatOrNumberT}
NameFieldDescriptors == {StringT, CatT}
FoldSchemas ==
    {S \in UNION {[ks -> Descriptors] : ks \in SUBSET Keys} :
        /\ "type" \in DOMAIN S => S["type"] \in TypeFieldDescriptors
        /\ "name" \in DOMAIN S => S["name"] \in NameFieldDescriptors}
Tuples == UNION {[1..n -> FoldSchemas] : n \in 0..MaxLen}

(***************************************************************************)
(* A type argument that need not be an object type (Empty, and the result *)
(* of a fold) carries a tag telling whether it is one.                    *)
(***************************************************************************)
Obj(t) == <<"object", t>>
NonObj(t) == <<"other", t>>
\* Empty omitted (= {}), Empty = { default: true }, Empty = null
EmptyArgs == {Obj(EmptyObject), Obj([K \in {"default"} |-> TrueT]), NonObj(NullT)}

\* [infer First, infer Second, ...infer Rest]
First(T) == T[1]
Second(T) == T[2]
Rest(T) == SubSeq(T, 3, Len(T))

\* Mutant: the recursive step of the strict fold merges with the upcast alias.
StrictRecursiveTupleUpcast(T) == <<CommonUpcastPairs(First(T), Second(T))>> \o Rest(T)

\* [CommonStrictPairs<First, Second>, ...Rest]: the tuple of the recursive instantiation
\* Mutant: one recursive step merges the first three elements.
StrictRecursiveTupleMergesThree(T) ==
    <<CommonStrictPairs(CommonStrictPairs(First(T), Second(T)), Rest(T)[1])>>
        \o SubSeq(T, 4, Len(T))

StrictRecursiveTuple(T) == <<CommonStrictPairs(First(T), Second(T))>> \o Rest(T)

\* Mutant: the recursive step also trims the remaining elements to the merged keys.
UpcastRecursiveTupleTrimsRest(T) ==
    LET merged == CommonUpcastPairs(First(T), Second(T))
    IN <<merged>> \o [i \in 1..Len(Rest(T)) |->
                        [K \in DOMAIN Rest(T)[i] \cap DOMAIN merged |-> Rest(T)[i][K]]]

\* Mutant: the second and third element are merged first.
UpcastRecursiveTupleRight(T) ==
    <<First(T), CommonUpcastPairs(Second(T), Rest(T)[1])>> \o SubSeq(T, 4, Len(T))

\* Mutant: the recursive step of the upcast fold merges with the strict alias.
UpcastRecursiveTupleStrict(T) == <<CommonStrictPairs(First(T), Second(T))>> \o Rest(T)

\* [CommonUpcastPairs<First, Second>, ...Rest]
UpcastRecursiveTuple(T) == <<CommonUpcastPairs(First(T), Second(T))>> \o Rest(T)

\* The recursive instantiation passes no Empty, so Empty takes its default {}.
RecursiveEmpty == Obj(EmptyObject)

VARIABLES
    pairT, pairU,       \* the type arguments T and U of the pairwise aliases
    evaluated,          \* the pairwise aliases instantiated so far
    strictPairs,        \* CommonStrictPairs<T, U>, once evaluated
    upcastPairs,        \* CommonUpcastPairs<T, U>, once evaluated
    revisionPairs,      \* CommonStrictPairs<T, U> of the revision part_000, once evaluated
    alias,              \* the fold alias being instantiated
    tuple,              \* the type argument T of the current instantiation
    empty,              \* the type argument Empty of the current instantiation
    pc,                 \* "eval" while instantiating, "done" once resolved
    result,             \* the resolved type (tagged), once pc = "done"
    inputs,             \* the tuple the outermost instantiation was given
    emptyArg,           \* the Empty the outermost instantiation was given
    merges,             \* the number of pairwise aliases instantiated so far
    classT,             \* the type argument T of the classifier aliases
    classified,         \* the classifier aliases instantiated so far
    isUpcastable,       \* IsUpcastable<T>, once evaluated
    getUpcastable       \* GetUpcastable<T>, once evaluated

pairVars == <<pairT, pairU, evaluated, strictPairs, upcastPairs, revisionPairs>>
foldVars == <<alias, tuple, empty, pc, result, inputs, emptyArg, merges>>
classVars == <<classT, classified, isUpcastable, getUpcastable>>
vars == <<pairVars, foldVars, classVars>>

\* No pairwise alias under evaluation: both are resolved, on {} and {}.
PairsIdle ==
    /\ pairT = EmptyObject
    /\ pairU = EmptyObject
    /\ evaluated = {"strict", "upcast"}
    /\ strictPairs = EmptyObject
    /\ upcastPairs = EmptyObject
    /\ revisionPairs = EmptyObject

\* No fold under evaluation.
FoldIdle ==
    /\ alias = "none"
    /\ tuple = <<>>
    /\ empty = Obj(EmptyObject)
    /\ pc = "done"
    /\ result = Obj(EmptyObject)
    /\ inputs = <<>>
    /\ emptyArg = Obj(EmptyObject)
    /\ merges = 0

\* No classifier alias under evaluation: both are resolved, on string.
ClassifyIdle ==
    /\ classT = StringT
    /\ classified = {"IsUpcastable", "GetUpcastable"}
    /\ isUpcastable = FalseT
    /\ getUpcastable = StringT

PairsInit ==
    /\ pairT \in Schemas
    /\ pairU \in Schemas
    /\ evaluated = {}
    /\ strictPairs = EmptyObject
    /\ upcastPairs = EmptyObject
    /\ revisionPairs = EmptyObject
    /\ FoldIdle
    /\ ClassifyIdle

\* type R = CommonStrictPairs<T, U>
EvalStrictPairs ==
    /\ "strict" \notin evaluated
    /\ strictPairs' = CommonStrictPairs(pairT, pairU)
    /\ evaluated' = evaluated \cup {"strict"}
    /\ UNCHANGED <<pairT, pairU, upcastPairs, revisionPairs, foldVars, classVars>>

\* type R = CommonUpcastPairs<T, U>
EvalUpcastPairs ==
    /\ "upcast" \notin evaluated
    /\ upcastPairs' = CommonUpcastPairs(pairT, pairU)
    /\ evaluated' = evaluated \cup {"upcast"}
    /\ UNCHANGED <<pairT, pairU, strictPairs, revisionPairs, foldVars, classVars>>

PairsNext == EvalStrictPairs \/ EvalUpcastPairs

PairsSpec == PairsInit /\ [][PairsNext]_vars

(***************************************************************************)
(* The folds, one action per branch of the conditional type.              *)
(***************************************************************************)
FoldInit ==
    /\ alias \in {"CommonStrictProps", "CommonUpcastProps"}
    /\ inputs \in Tuples
    /\ emptyArg \in EmptyArgs
    /\ tuple = inputs
    /\ empty = emptyArg
    /\ pc = "eval"
    /\ result = Obj(EmptyObject)
    /\ merges = 0
    /\ PairsIdle
    /\ ClassifyIdle

\* T extends [First, Second, ...Rest], Rest not []: CommonStrictProps<[CommonStrictPairs<First, Second>, ...Rest]>
StrictRecurse ==
    /\ alias = "CommonStrictProps" /\ pc = "eval"
    /\ Len(tuple) >= 2
    /\ Rest(tuple) # <<>>
    /\ tuple' = StrictRecursiveTuple(tuple)
    /\ empty' = RecursiveEmpty
    /\ merges' = merges + 1
    /\ UNCHANGED <<alias, pc, result, inputs, emptyArg, pairVars, classVars>>

\* T extends [First, Second, ...Rest], Rest extends []: CommonStrictPairs<First, Second>
StrictPairs ==
    /\ alias = "CommonStrictProps" /\ pc = "eval"
    /\ Len(tuple) >= 2
    /\ Rest(tuple) = <<>>
    /\ result' = Obj(CommonStrictPairs(First(tuple), Second(tuple)))
    /\ pc' = "done"
    /\ merges' = merges + 1
    /\ UNCHANGED <<alias, tuple, empty, inputs, emptyArg, pairVars, classVars>>

\* Mutant: a tuple of one element resolves to Empty.
StrictOnlyReturnsEmpty ==
    /\ alias = "CommonStrictProps" /\ pc = "eval"
    /\ Len(tuple) = 1
    /\ result' = empty
    /\ pc' = "done"
    /\ UNCHANGED <<alias, tuple, empty, inputs, emptyArg, merges, pairVars, classVars>>

\* T extends [Only]: Only
StrictOnly ==
    /\ alias = "CommonStrictProps" /\ pc = "eval"
    /\ Len(tuple) = 1
    /\ result' = Obj(tuple[1])
    /\ pc' = "done"
    /\ UNCHANGED <<alias, tuple, empty, inputs, emptyArg, merges, pairVars, classVars>>

\* Mutant: the empty tuple resolves to a hard-coded {}.
StrictEmptyHardCoded ==
    /\ alias = "CommonStrictProps" /\ pc = "eval"
    /\ Len(tuple) = 0
    /\ result' = Obj(EmptyObject)
    /\ pc' = "done"
    /\ UNCHANGED <<alias, tuple, empty, inputs, emptyArg, merges, pairVars, classVars>>

\* otherwise: Empty
StrictEmpty ==
    /\ alias = "CommonStrictProps" /\ pc = "eval"
    /\ Len(tuple) = 0
    /\ result' = empty
    /\ pc' = "done"
    /\ UNCHANGED <<alias, tuple, empty, inputs, emptyArg, merges, pairVars, classVars>>

\* T extends [First, Second, ...Rest], Rest not []: CommonUpcastProps<[CommonUpcastPairs<First, Second>, ...Rest]>
UpcastRecurse ==
    /\ alias = "CommonUpcastProps" /\ pc = "eval"
    /\ Len(tuple) >= 2
    /\ Rest(tuple) # <<>>
    /\ tuple' = UpcastRecursiveTuple(tuple)
    /\ empty' = RecursiveEmpty
    /\ merges' = merges + 1
    /\ UNCHANGED <<alias, pc, result, inputs, emptyArg, pairVars, classVars>>

\* Mutant: the last merge resolves only when the two objects share a key.
UpcastPairsNeedsSharedKey ==
    /\ alias = "CommonUpcastProps" /\ pc = "eval"
    /\ Len(tuple) >= 2
    /\ Rest(tuple) = <<>>
    /\ SharedKeys(First(tuple), Second(tuple)) # {}
    /\ result' = Obj(CommonUpcastPairs(First(tuple), Second(tuple)))
    /\ pc' = "done"
    /\ merges' = merges + 1
    /\ UNCHANGED <<alias, tuple, empty, inputs, emptyArg, pairVars, classVars>>

\* T extends [First, Second, ...Rest], Rest extends []: CommonUpcastPairs<First, Second>
UpcastPairs ==
    /\ alias = "CommonUpcastProps" /\ pc = "eval"
    /\ Len(tuple) >= 2
    /\ Rest(tuple) = <<>>
    /\ result' = Obj(CommonUpcastPairs(First(tuple), Second(tuple)))
    /\ pc' = "done"
    /\ merges' = merges + 1
    /\ UNCHANGED <<alias, tuple, empty, inputs, emptyArg, pairVars, classVars>>

\* Mutant: the only element has its literals widened.
UpcastOnlyWidened ==
    /\ alias = "CommonUpcastProps" /\ pc = "eval"
    /\ Len(tuple) = 1
    /\ result' = Obj([K \in DOMAIN tuple[1] |->
                        IF IsUpcastable(tuple[1][K]) = TrueT
                        THEN GetUpcastable(tuple[1][K]) ELSE tuple[1][K]])
    /\ pc' = "done"
    /\ UNCHANGED <<alias, tuple, empty, inputs, emptyArg, merges, pairVars, classVars>>

\* T extends [Only]: Only
UpcastOnly ==
    /\ alias = "CommonUpcastProps" /\ pc = "eval"
    /\ Len(tuple) = 1
    /\ result' = Obj(tuple[1])
    /\ pc' = "done"
    /\ UNCHANGED <<alias, tuple, empty, inputs, emptyArg, merges, pairVars, classVars>>

\* otherwise: Empty
UpcastEmpty ==
    /\ alias = "CommonUpcastProps" /\ pc = "eval"
    /\ Len(tuple) = 0
    /\ result' = empty
    /\ pc' = "done"
    /\ UNCHANGED <<alias, tuple, empty, inputs, emptyArg, merges, pairVars, classVars>>

Next ==
    \/ StrictRecurse \/ StrictPairs \/ StrictOnly \/ StrictEmpty
    \/ UpcastRecurse \/ UpcastPairs \/ UpcastOnly \/ UpcastEmpty

Spec == FoldInit /\ [][Next]_vars

(***************************************************************************)
(* The classifier aliases, instantiated on a descriptor or on the union   *)
(* of two descriptors ('cat' | 'dog', 'cat' | 1, true | false, ...).      *)
(***************************************************************************)
ClassifierInputs == {a \cup b : a \in Descriptors, b \in Descriptors}

ClassifyInit ==
    /\ classT \in ClassifierInputs
    /\ classified = {}
    /\ isUpcastable = Never
    /\ getUpcastable = Never
    /\ PairsIdle
    /\ FoldIdle

\* type R = IsUpcastable<T>
EvalIsUpcastable ==
    /\ "IsUpcastable" \notin classified
    /\ isUpcastable' = IsUpcastable(classT)
    /\ classified' = classified \cup {"IsUpcastable"}
    /\ UNCHANGED <<classT, getUpcastable, pairVars, foldVars>>

\* type R = GetUpcastable<T>
EvalGetUpcastable ==
    /\ "GetUpcastable" \notin classified
    /\ getUpcastable' = GetUpcastable(classT)
    /\ classified' = classified \cup {"GetUpcastable"}
    /\ UNCHANGED <<classT, isUpcastable, pairVars, foldVars>>

ClassifyNext == EvalIsUpcastable \/ EvalGetUpcastable

ClassifySpec == ClassifyInit /\ [][ClassifyNext]_vars

\* The compiler resolves an instantiation it has started: a step that is
\* possible is eventually taken.
FairSpec == Spec /\ WF_vars(Next)

(***************************************************************************)
(* The revision part_000: its CommonStrictPairs instantiated on a pair.   *)
(***************************************************************************)
RevisionInit == PairsInit

\* type R = CommonStrictPairs<T, U>, in part_000
EvalStrictPairsPart000 ==
    /\ "part_000" \notin evaluated
    /\ revisionPairs' = CommonStrictPairsPart000(pairT, pairU)
    /\ evaluated' = evaluated \cup {"part_000"}
    /\ UNCHANGED <<pairT, pairU, strictPairs, upcastPairs, foldVars, classVars>>

RevisionNext == EvalStrictPairsPart000

RevisionSpec == RevisionInit /\ [][RevisionNext]_vars

(***************************************************************************)
(* Any one alias of the module instantiated on any of the inputs above.   *)
(***************************************************************************)
AllInit == PairsInit \/ FoldInit \/ ClassifyInit

AllNext == PairsNext \/ Next \/ ClassifyNext

AllSpec == AllInit /\ [][AllNext]_vars

(***************************************************************************)
(* Vocabulary of the properties.                                          *)
(***************************************************************************)
\* is_assignable(a, b): a is at least as specific as b.
IsAssignable(a, b) == a \subseteq b
\* a is strictly more specific than b.
StrictlyMoreSpecific(a, b) == IsAssignable(a, b) /\ ~IsAssignable(b, a)
\* The literals whose base kind is the primitive prim.
LiteralsOf(prim) == {d \in Literals : d \subseteq prim /\ d # prim}
StrictDone == "strict" \in evaluated
UpcastDone == "upcast" \in evaluated
BothDone == StrictDone /\ UpcastDone

(***************************************************************************)
(* C1. For both policies the key set of the merge of A and B is a subset  *)
(* of keys(A) \cap keys(B): a field absent from either input is never     *)
(* present in the output.                                                 *)
(***************************************************************************)
KeySubsetOfIntersection ==
    /\ StrictDone => DOMAIN strictPairs \subseteq (DOMAIN pairT \cap DOMAIN pairU)
    /\ UpcastDone => DOMAIN upcastPairs \subseteq (DOMAIN pairT \cap DOMAIN pairU)

\* One input has a field the other lacks; the shared field is kept, the other is not.
KeySubsetWitness ==
    /\ BothDone
    /\ DOMAIN pairT = {"name", "type"}
    /\ DOMAIN pairU = {"name"}
    /\ DOMAIN strictPairs = {"name"}
    /\ DOMAIN upcastPairs = {"name"}

RuleCase(a, b) ==
    IF a = b THEN 1
    ELSE IF StrictlyMoreSpecific(a, b) THEN 2
    ELSE IF StrictlyMoreSpecific(b, a) THEN 3
    ELSE IF /\ IsUpcastable(a) = TrueT
            /\ IsUpcastable(b) = TrueT
            /\ GetUpcastable(a) = GetUpcastable(b)
            /\ GetUpcastable(a) \in Primitives THEN 4
    ELSE 5

\* What the rule keeps in the case c.
RuleKeeps(c, a, b) ==
    IF c = 1 THEN a
    ELSE IF c = 2 THEN b
    ELSE IF c = 3 THEN a
    ELSE GetUpcastable(a)

UpcastFollowsFiveCaseRule ==
    UpcastDone =>
        \A k \in DOMAIN pairT \cap DOMAIN pairU :
            LET c == RuleCase(pairT[k], pairU[k]) IN
            /\ c = 5 <=> k \notin DOMAIN upcastPairs
            /\ c # 5 => upcastPairs[k] = RuleKeeps(c, pairT[k], pairU[k])
            /\ (UpcastKey(pairT, pairU, k) = Never) <=> (UpcastValue(pairT, pairU, k) = Never)

\* Case 4 on one field (two literals of one kind) and case 5 on the other.
FiveCaseWitness ==
    /\ UpcastDone
    /\ DOMAIN pairT = Keys /\ DOMAIN pairU = Keys
    /\ pairT["type"] = CatT /\ pairU["type"] = DogT
    /\ pairT["name"] = ObjXT /\ pairU["name"] = OneT
    /\ upcastPairs = [K \in {"type"} |-> StringT]

(***************************************************************************)
(* C4. Type selection priority: when one of A[k], B[k] is a literal and   *)
(* the other is the primitive of the same base kind, CommonUpcastPairs    *)
(* keeps k with the primitive, whichever argument holds the primitive.    *)
(***************************************************************************)
UpcastPrefersPrimitive ==
    UpcastDone =>
        \A k \in DOMAIN pairT \cap DOMAIN pairU : \A prim \in Primitives :
            (\/ pairT[k] \in LiteralsOf(prim) /\ pairU[k] = prim
             \/ pairT[k] = prim /\ pairU[k] \in LiteralsOf(prim))
            => (k \in DOMAIN upcastPairs /\ upcastPairs[k] = prim)

\* The primitive is on the left for one field and on the right for the other.
PrefersPrimitiveWitness ==
    /\ UpcastDone
    /\ DOMAIN pairT = Keys /\ DOMAIN pairU = Keys
    /\ pairT["name"] = StringT /\ pairU["name"] = CatT
    /\ pairT["type"] = OneT /\ pairU["type"] = NumberT
    /\ upcastPairs = [K \in Keys |-> IF K = "name" THEN StringT ELSE NumberT]

(***************************************************************************)
(* C5. Commutativity: CommonStrictPairs<A, B> = CommonStrictPairs<B, A>   *)
(* and CommonUpcastPairs<A, B> = CommonUpcastPairs<B, A> (same key set,   *)
(* same descriptor per key).                                              *)
(***************************************************************************)
PairsCommute ==
    /\ StrictDone => strictPairs = CommonStrictPairs(pairU, pairT)
    /\ UpcastDone => upcastPairs = CommonUpcastPairs(pairU, pairT)

\* Different arguments, one of them strictly more specific on a kept field.
CommuteWitness ==
    /\ BothDone
    /\ pairT # pairU
    /\ \E k \in DOMAIN upcastPairs : StrictlyMoreSpecific(pairT[k], pairU[k])
    /\ \E k \in DOMAIN upcastPairs : RuleCase(pairT[k], pairU[k]) = 4
    /\ DOMAIN strictPairs = {}

(***************************************************************************)
(* C6. Idempotence: CommonStrictPairs<S, S> = S and                       *)
(* CommonUpcastPairs<S, S> = S; every field of S is kept with its         *)
(* descriptor unchanged, literal and opaque fields included.              *)
(***************************************************************************)
PairsIdempotent ==
    pairT = pairU =>
        /\ StrictDone => strictPairs = pairT
        /\ UpcastDone => upcastPairs = pairT

\* A schema with a literal and an opaque field merged with itself.
IdempotentWitness ==
    /\ BothDone
    /\ pairT = pairU
    /\ DOMAIN pairT = Keys
    /\ pairT["type"] = TrueT
    /\ pairT["name"] = ObjXT
    /\ upcastPairs = pairT

(***************************************************************************)
(* C7. Upcast contains strict: every field kept by CommonStrictPairs<A,B> *)
(* is also kept by CommonUpcastPairs<A, B>, with the same descriptor.     *)
(***************************************************************************)
UpcastContainsStrict ==
    BothDone =>
        \A k \in DOMAIN strictPairs :
            /\ k \in DOMAIN upcastPairs
            /\ upcastPairs[k] = strictPairs[k]

\* Strict keeps one field; upcast keeps that field and one more.
ContainsStrictWitness ==
    /\ BothDone
    /\ DOMAIN strictPairs = {"name"}
    /\ DOMAIN upcastPairs = Keys
    /\ strictPairs["name"] = NumberT

(***************************************************************************)
(* C8. A fold over zero schemas returns exactly the Empty it was given,   *)
(* whatever it is (an object type or not), hence {} when Empty is left to *)
(* its default; no pairwise merge takes place.                            *)
(***************************************************************************)
FoldOfNoneIsEmpty ==
    (pc = "done" /\ Len(inputs) = 0) => (result = emptyArg /\ merges = 0)

\* CommonStrictProps<[], null> resolved to null.
FoldOfNoneWitness ==
    /\ pc = "done"
    /\ alias = "CommonStrictProps"
    /\ inputs = <<>>
    /\ emptyArg = NonObj(NullT)
    /\ result = NonObj(NullT)

(***************************************************************************)
(* C9. A fold over one schema returns that schema unchanged (every field  *)
(* with its original descriptor, literals not widened) and applies no     *)
(* pairwise merge.                                                        *)
(***************************************************************************)
FoldOfOneIsIdentity ==
    (pc = "done" /\ Len(inputs) = 1) => (result = Obj(inputs[1]) /\ merges = 0)

\* CommonUpcastProps<[S]> with a literal field in S.
FoldOfOneWitness ==
    /\ pc = "done"
    /\ alias = "CommonUpcastProps"
    /\ Len(inputs) = 1
    /\ DOMAIN inputs[1] = Keys
    /\ inputs[1]["type"] = CatT
    /\ result = Obj(inputs[1])

(***************************************************************************)
(* C10. A fold over N >= 2 schemas is the left fold of the pairwise       *)
(* merge: merge(S1, S2) for N = 2 and merge(...merge(merge(S1, S2), S3)   *)
(* ..., SN) for N >= 3, for both policies.                                *)
(***************************************************************************)
Merge(a, A, B) ==
    IF a = "CommonStrictProps" THEN CommonStrictPairs(A, B) ELSE CommonUpcastPairs(A, B)

RECURSIVE LeftFoldFrom(_, _, _, _)
LeftFoldFrom(a, acc, S, i) ==
    IF i > Len(S) THEN acc ELSE LeftFoldFrom(a, Merge(a, acc, S[i]), S, i + 1)

LeftFold(a, S) == LeftFoldFrom(a, S[1], S, 2)

FoldIsLeftFold ==
    (pc = "done" /\ Len(inputs) >= 2) =>
        /\ result = Obj(LeftFold(alias, inputs))
        /\ Len(inputs) = 2 => result = Obj(Merge(alias, inputs[1], inputs[2]))

\* Three schemas whose grouping matters: 'cat' with 1 is dropped at once,
\* while 1 with 'cat' | number would have been kept.
LeftFoldWitness ==
    /\ pc = "done"
    /\ alias = "CommonUpcastProps"
    /\ Len(inputs) = 3
    /\ \A i \in 1..3 : DOMAIN inputs[i] = Keys
    /\ inputs[1]["type"] = CatT
    /\ inputs[2]["type"] = OneT
    /\ inputs[3]["type"] = CatOrNumberT
    /\ DOMAIN result[2] = {"name"}

(***************************************************************************)
(* C11. Associativity: merge(merge(A, B), C) = merge(A, merge(B, C)) for  *)
(* all schemas A, B, C and both policies, so that a fold gives the same   *)
(* result under any grouping of the pairwise merges.  The fold of three   *)
(* schemas is the left grouping; it is compared with the right grouping.  *)
(***************************************************************************)
RightGrouping(a, S) == Merge(a, S[1], Merge(a, S[2], S[3]))

MergeAssociative ==
    (pc = "done" /\ Len(inputs) = 3) => result = Obj(RightGrouping(alias, inputs))

(***************************************************************************)
(* C12. Strict fold: for N >= 2 schemas CommonStrictProps keeps field k   *)
(* if and only if k is present in every input and all inputs hold the     *)
(* identical descriptor for k; one input that differs, at any position,   *)
(* removes the field.                                                     *)
(***************************************************************************)
InEvery(k, S) == \A i \in 1..Len(S) : k \in DOMAIN S[i]
AllIdentical(k, S) == \A i, j \in 1..Len(S) : S[i][k] = S[j][k]

StrictFoldKeepsIdentical ==
    (pc = "done" /\ alias = "CommonStrictProps" /\ Len(inputs) >= 2) =>
        \A k \in Keys :
            /\ k \in DOMAIN result[2] <=> (InEvery(k, inputs) /\ AllIdentical(k, inputs))
            /\ k \in DOMAIN result[2] => result[2][k] = inputs[1][k]

\* Three schemas: "name" is identical in all and kept, "type" differs only in
\* the last one and is removed.
StrictFoldWitness ==
    /\ pc = "done" /\ alias = "CommonStrictProps"
    /\ Len(inputs) = 3
    /\ \A i \in 1..3 : DOMAIN inputs[i] = Keys
    /\ inputs[1]["type"] = CatT /\ inputs[2]["type"] = CatT /\ inputs[3]["type"] = DogT
    /\ result = Obj([K \in {"name"} |-> CatT])

(***************************************************************************)
(* C13 as stated. Upcast fold: for N >= 2 schemas CommonUpcastProps keeps *)
(* field k if and only if k is present in every input and either all      *)
(* inputs hold the identical descriptor or all hold a literal or the      *)
(* primitive of one common base kind; the value is the common descriptor  *)
(* when all are identical and otherwise the primitive of that kind.       *)
(***************************************************************************)
\* Every input holds, for k, a literal of the kind prim or prim itself.
AllOfKind(k, S, prim) ==
    \A i \in 1..Len(S) : S[i][k] \in LiteralsOf(prim) \cup {prim}

UpcastFoldRule(k) ==
    /\ k \in DOMAIN result[2] <=>
           /\ InEvery(k, inputs)
           /\ \/ AllIdentical(k, inputs)
              \/ \E prim \in Primitives : AllOfKind(k, inputs, prim)
    /\ k \in DOMAIN result[2] =>
           IF AllIdentical(k, inputs) THEN result[2][k] = inputs[1][k]
           ELSE \E prim \in Primitives :
                    AllOfKind(k, inputs, prim) /\ result[2][k] = prim

UpcastFoldCharacterised ==
    (pc = "done" /\ alias = "CommonUpcastProps" /\ Len(inputs) >= 2) =>
        \A k \in Keys : UpcastFoldRule(k)

(***************************************************************************)
(* C13 as amended. The same, for the fields k whose descriptors in the    *)
(* inputs are literals, primitives, or descriptors that are neither       *)
(* upcastable nor assignable to or from a different descriptor held for k *)
(* by another input.                                                      *)
(***************************************************************************)
\* d is a literal or a primitive, or stands alone among the descriptors ds.
PlainAmong(d, ds) ==
    \/ d \in Literals \cup Primitives
    \/ /\ IsUpcastable(d) = FalseT
       /\ \A e \in ds : e # d => (~IsAssignable(d, e) /\ ~IsAssignable(e, d))

PlainField(k, S) ==
    LET ds == {S[i][k] : i \in {j \in 1..Len(S) : k \in DOMAIN S[j]}}
    IN \A d \in ds : PlainAmong(d, ds)

UpcastFoldCharacterisedOnPlainFields ==
    (pc = "done" /\ alias = "CommonUpcastProps" /\ Len(inputs) >= 2) =>
        \A k \in Keys : PlainField(k, inputs) => UpcastFoldRule(k)

\* 'cat', 'dog', 'cat' fold to string on "type"; 'cat', string, 'cat' fold to
\* string on "name".
UpcastFoldWitness ==
    /\ pc = "done" /\ alias = "CommonUpcastProps"
    /\ Len(inputs) = 3
    /\ \A i \in 1..3 : DOMAIN inputs[i] = Keys
    /\ inputs[1]["type"] = CatT /\ inputs[2]["type"] = DogT /\ inputs[3]["type"] = CatT
    /\ inputs[1]["name"] = CatT /\ inputs[2]["name"] = StringT /\ inputs[3]["name"] = CatT
    /\ result = Obj([K \in Keys |-> StringT])

(***************************************************************************)
(* C14. Two distinct literals of the same base kind on a shared field:    *)
(* CommonStrictPairs drops the field and CommonUpcastPairs keeps it with  *)
(* the primitive of that base kind.                                       *)
(***************************************************************************)
DistinctLiteralsOfOneKind(a, b, prim) ==
    a \in LiteralsOf(prim) /\ b \in LiteralsOf(prim) /\ a # b

RealDescriptors(S) == \A k \in DOMAIN S : S[k] \in Descriptors

OpaqueInvolved(a, b) == a \in Opaques \/ b \in Opaques

OpaqueByIdentityOnly ==
    BothDone =>
        \A k \in DOMAIN pairT \cap DOMAIN pairU :
            OpaqueInvolved(pairT[k], pairU[k]) =>
                IF pairT[k] = pairU[k]
                THEN /\ k \in DOMAIN strictPairs /\ strictPairs[k] = pairT[k]
                     /\ k \in DOMAIN upcastPairs /\ upcastPairs[k] = pairT[k]
                ELSE /\ k \notin DOMAIN strictPairs
                     /\ k \notin DOMAIN upcastPairs

(***************************************************************************)
(* C16 as amended. Identical Opaque descriptors are kept unchanged under  *)
(* both policies and differing ones are dropped under the strict policy.  *)
(* Under the upcast policy a differing pair is kept with the more general *)
(* side when one side is assignable to the other, kept with the primitive *)
(* when both sides are upcastable with one base kind, and dropped         *)
(* otherwise.                                                             *)
(***************************************************************************)
OpaqueByAssignability ==
    BothDone =>
        \A k \in DOMAIN pairT \cap DOMAIN pairU :
            LET a == pairT[k]
                b == pairU[k]
            IN OpaqueInvolved(a, b) =>
                IF a = b
                THEN /\ k \in DOMAIN strictPairs /\ strictPairs[k] = a
                     /\ k \in DOMAIN upcastPairs /\ upcastPairs[k] = a
                ELSE /\ k \notin DOMAIN strictPairs
                     /\ IsAssignable(a, b) => (k \in DOMAIN upcastPairs /\ upcastPairs[k] = b)
                     /\ IsAssignable(b, a) => (k \in DOMAIN upcastPairs /\ upcastPairs[k] = a)
                     /\ (~IsAssignable(a, b) /\ ~IsAssignable(b, a)) =>
                            IF /\ IsUpcastable(a) = TrueT /\ IsUpcastable(b) = TrueT
                               /\ GetUpcastable(a) = GetUpcastable(b)
                            THEN k \in DOMAIN upcastPairs /\ upcastPairs[k] = GetUpcastable(a)
                            ELSE k \notin DOMAIN upcastPairs

\* {x:1; y:2} with {x:1} is kept as {x:1} by upcast only; null with string[] is dropped.
OpaqueWitness ==
    /\ BothDone
    /\ DOMAIN pairT = Keys /\ DOMAIN pairU = Keys
    /\ pairT["name"] = ObjXYT /\ pairU["name"] = ObjXT
    /\ pairT["type"] = NullT /\ pairU["type"] = StrArrT
    /\ strictPairs = EmptyObject
    /\ upcastPairs = [K \in {"name"} |-> ObjXT]

(***************************************************************************)
(* C17 as stated. IsUpcastable is true if and only if its argument is a   *)
(* string, number or boolean literal; it is false for the primitives and  *)
(* for every other type.                                                  *)
(***************************************************************************)
IsUpcastableDone == "IsUpcastable" \in classified
GetUpcastableDone == "GetUpcastable" \in classified

UpcastableIffLiteral ==
    IsUpcastableDone =>
        /\ isUpcastable \in {TrueT, FalseT}
        /\ isUpcastable = TrueT <=> classT \in Literals

(***************************************************************************)
(* C17 as amended. IsUpcastable is true if and only if its argument is a  *)
(* literal or a union of literals of one base kind that is not the whole  *)
(* kind: true | false is boolean and is not upcastable. It is false for   *)
(* the primitives, for a union that mixes kinds or holds a primitive, and *)
(* for object, array and null types.                                      *)
(***************************************************************************)
LiteralsWithin(d, prim) ==
    /\ d # {} /\ d # prim
    /\ d = UNION {l \in LiteralsOf(prim) : l \subseteq d}

UpcastableIffLiteralsOfOneKind ==
    IsUpcastableDone =>
        /\ isUpcastable \in {TrueT, FalseT}
        /\ isUpcastable = TrueT <=> \E prim \in Primitives : LiteralsWithin(classT, prim)
        /\ classT \in Literals => isUpcastable = TrueT
        /\ classT \in Primitives => isUpcastable = FalseT

\* 'cat' | 'dog' is classified as upcastable.
UpcastableWitness ==
    /\ IsUpcastableDone
    /\ classT = CatOrDogT
    /\ isUpcastable = TrueT

(***************************************************************************)
(* C18 as stated. GetUpcastable gives string, number or boolean for every *)
(* literal and every primitive of that kind, and never for every other    *)
(* type.                                                                  *)
(***************************************************************************)
KindOf(d) == CHOOSE prim \in Primitives : d \subseteq prim

BaseKindNeverForOpaque ==
    GetUpcastableDone =>
        /\ classT \in Literals \cup Primitives => getUpcastable = KindOf(classT)
        /\ classT \in Opaques => getUpcastable = Never

(***************************************************************************)
(* C18 as amended. GetUpcastable gives string, number or boolean for      *)
(* every literal and every primitive of that kind and never for object,   *)
(* array and null types; for a union it gives the union of the base kinds *)
(* of the members, so 'cat' | 'dog' gives string and 'cat' | number gives *)
(* string | number.                                                       *)
(***************************************************************************)
KindsMet(d) == UNION {prim \in Primitives : d \cap prim # {}}

BaseKindOfMembers ==
    GetUpcastableDone =>
        /\ classT \in Literals \cup Primitives => getUpcastable = KindOf(classT)
        /\ classT \in {ObjXT, ObjXYT, StrArrT, NullT} => getUpcastable = Never
        /\ getUpcastable = KindsMet(classT)

\* 'cat' | number gives string | number.
BaseKindWitness ==
    /\ GetUpcastableDone
    /\ classT = CatOrNumberT
    /\ getUpcastable = StringT \cup NumberT

(***************************************************************************)
(* C19 as stated. `a extends b` holds exactly when a equals b or a is a   *)
(* literal and b is the primitive of its kind; hence a and b extend each  *)
(* other if and only if they are equal.                                   *)
(***************************************************************************)
LiteralToItsPrimitive(a, b) == \E prim \in Primitives : a \in LiteralsOf(prim) /\ b = prim

IsSchema(S) == \A k \in DOMAIN S : S[k] \in Descriptors

NoCommonKey(S) == \A k \in Keys : \E i \in 1..Len(S) : k \notin DOMAIN S[i]

InputsKept ==
    /\ inputs' = inputs /\ emptyArg' = emptyArg
    /\ pairT' = pairT /\ pairU' = pairU
    /\ classT' = classT
    /\ (pc = "eval" /\ Len(tuple) >= 2) =>
           IF pc' = "done" THEN tuple' = tuple
           ELSE /\ Len(tuple') = Len(tuple) - 1
                /\ SubSeq(tuple', 2, Len(tuple')) = Rest(tuple)

InputsNeverMutated == [][InputsKept]_vars

\* One recursive step of a fold of three: the third input is still as given.
InputsKeptWitness ==
    /\ pc = "eval" /\ merges = 1
    /\ Len(inputs) = 3 /\ Len(tuple) = 2
    /\ tuple[2] = inputs[3]
    /\ tuple[1] # inputs[1] /\ tuple[1] # inputs[2]
    /\ DOMAIN inputs[3] # DOMAIN tuple[1]

(***************************************************************************)
(* C22. Generality is maintained across the steps of an upcast fold: when *)
(* the accumulated object holds a primitive for k and the next input      *)
(* holds a literal of that kind or the same primitive, k is kept with the *)
(* primitive; while k survives, the type held before the step is          *)
(* assignable to the type held after it, so it is never narrowed back.    *)
(***************************************************************************)
\* The object a merging step of the fold produces, in the next state.
Accumulated == IF pc' = "done" THEN result'[2] ELSE tuple'[1]

GeneralityStep ==
    (alias = "CommonUpcastProps" /\ pc = "eval" /\ Len(tuple) >= 2) =>
        /\ \A k \in DOMAIN Accumulated : IsAssignable(tuple[1][k], Accumulated[k])
        /\ \A k \in DOMAIN tuple[1] \cap DOMAIN tuple[2] :
               (/\ tuple[1][k] \in Primitives
                /\ tuple[2][k] \in LiteralsOf(tuple[1][k]) \cup {tuple[1][k]}) =>
                   (k \in DOMAIN Accumulated /\ Accumulated[k] = tuple[1][k])

GeneralityMaintained == [][GeneralityStep]_vars

\* 'cat' and string give string, and a later 'dog' leaves it string.
GeneralityWitness ==
    /\ pc = "done" /\ alias = "CommonUpcastProps"
    /\ Len(inputs) = 3
    /\ \A i \in 1..3 : "type" \in DOMAIN inputs[i]
    /\ inputs[1]["type"] = CatT /\ inputs[2]["type"] = StringT /\ inputs[3]["type"] = DogT
    /\ "type" \in DOMAIN result[2] /\ result[2]["type"] = StringT

(***************************************************************************)
(* C23. Every type CommonUpcastPairs keeps is an upper bound of both      *)
(* inputs: T[k] and U[k] are both assignable to it; every type            *)
(* CommonStrictPairs keeps equals both T[k] and U[k].                     *)
(***************************************************************************)
KeptIsUpperBound ==
    /\ UpcastDone =>
           \A k \in DOMAIN upcastPairs :
               /\ IsAssignable(pairT[k], upcastPairs[k])
               /\ IsAssignable(pairU[k], upcastPairs[k])
    /\ StrictDone =>
           \A k \in DOMAIN strictPairs :
               strictPairs[k] = pairT[k] /\ strictPairs[k] = pairU[k]

\* 1 with 2 is kept as number, above both; string is kept by both merges.
UpperBoundWitness ==
    /\ BothDone
    /\ DOMAIN pairT = Keys /\ DOMAIN pairU = Keys
    /\ pairT["type"] = OneT /\ pairU["type"] = TwoT
    /\ pairT["name"] = StringT /\ pairU["name"] = StringT
    /\ upcastPairs = [K \in Keys |-> IF K = "type" THEN NumberT ELSE StringT]
    /\ strictPairs = [K \in {"name"} |-> StringT]

(***************************************************************************)
(* C24. IsUpcastable treats a union as one unit: a union of literals of   *)
(* one base kind is upcastable, a union of a literal with a primitive of  *)
(* another kind is not, and true | false, which is boolean, is not.       *)
(***************************************************************************)
UnionIsOneUnit ==
    IsUpcastableDone =>
        /\ \A prim \in {StringT, NumberT} : \A l1, l2 \in LiteralsOf(prim) :
               classT = l1 \cup l2 => isUpcastable = TrueT
        /\ \A prim \in Primitives : \A l \in Literals \ LiteralsOf(prim) :
               classT = l \cup prim => isUpcastable = FalseT
        /\ classT = TrueT \cup FalseT => isUpcastable = FalseT

\* 'cat' | number is not upcastable.
UnionWitness ==
    /\ IsUpcastableDone
    /\ classT = CatT \cup NumberT
    /\ isUpcastable = FalseT


(***************************************************************************)
(* C25. In the revision part_000, CommonStrictPairs<T, U> gives a shared  *)
(* property a usable type (one other than never) only if T[k] and U[k]    *)
(* are identical, and then that type; a literal against its primitive is  *)
(* not kept.                                                              *)
(***************************************************************************)
RevisionDone == "part_000" \in evaluated

RevisionStrictIsExact ==
    RevisionDone =>
        \A k \in DOMAIN revisionPairs :
            revisionPairs[k] # Never =>
                (pairT[k] = pairU[k] /\ revisionPairs[k] = pairT[k])


(***************************************************************************)
(* C26. The fold always terminates: every instantiation resolves; it      *)
(* instantiates a pairwise alias exactly N - 1 times for N >= 2 inputs    *)
(* and never for N <= 1; every step before the last merges one more       *)
(* element, and the tuple still to be folded shrinks by one.              *)
(***************************************************************************)
MergeCount ==
    /\ pc = "eval" => merges + Len(tuple) = Len(inputs)
    /\ pc = "done" => merges = IF Len(inputs) >= 2 THEN Len(inputs) - 1 ELSE 0

TupleShrinks ==
    pc = "eval" =>
        \/ pc' = "done"
        \/ /\ Len(tuple') = Len(tuple) - 1
           /\ merges' = merges + 1

FoldTerminates == []MergeCount /\ [][TupleShrinks]_vars /\ <>(pc = "done")

\* A fold of three inputs has resolved after two pairwise merges.
TerminatesWitness ==
    /\ pc = "done" /\ alias = "CommonStrictProps"
    /\ Len(inputs) = 3
    /\ merges = 2


(***************************************************************************)
(* C27 as stated. No unnecessary widening: CommonUpcastPairs holds a      *)
(* literal for k only if T[k] and U[k] are that literal, and any other    *)
(* non-primitive type only if both hold that same type; a primitive is    *)
(* the primitive of the inputs' own base kind; the kept type is the least *)
(* descriptor to which both inputs are assignable.                        *)
(***************************************************************************)
OfKind(d, prim) == d \in LiteralsOf(prim) \cup {prim}

NoUnnecessaryWidening ==
    UpcastDone =>
        \A k \in DOMAIN upcastPairs :
            LET a == pairT[k]
                b == pairU[k]
                r == upcastPairs[k]
            IN /\ r \in Literals => (a = r /\ b = r)
               /\ r \in Opaques => (a = r /\ b = r)
               /\ r \in Primitives => (OfKind(a, r) /\ OfKind(b, r))
               /\ \A d \in Descriptors :
                      (IsAssignable(a, d) /\ IsAssignable(b, d)) => IsAssignable(r, d)

(***************************************************************************)
(* C27 as amended. CommonUpcastPairs holds a literal for k only if T[k]   *)
(* and U[k] are that literal; it holds a union, object or other           *)
(* non-primitive type only if one input holds that type and the other is  *)
(* assignable to it; it holds a primitive only if both inputs lie within  *)
(* that base kind; and the kept type is assignable to every literal or    *)
(* primitive to which both inputs are assignable (a union that lies       *)
(* between, such as 'cat' | 'dog' below string, is not considered).       *)
(***************************************************************************)
WideningIsBounded ==
    UpcastDone =>
        \A k \in DOMAIN upcastPairs :
            LET a == pairT[k]
                b == pairU[k]
                r == upcastPairs[k]
            IN /\ r \in Literals => (a = r /\ b = r)
               /\ r \in Opaques =>
                      /\ a = r \/ b = r
                      /\ IsAssignable(a, r) /\ IsAssignable(b, r)
               /\ r \in Primitives => (IsAssignable(a, r) /\ IsAssignable(b, r))
               /\ \A d \in Literals \cup Primitives :
                      (IsAssignable(a, d) /\ IsAssignable(b, d)) => IsAssignable(r, d)

\* 'cat' with 'dog' widens to string; 'cat' | 'dog' with 'cat' keeps the union.
WideningWitness ==
    /\ UpcastDone
    /\ DOMAIN pairT = Keys /\ DOMAIN pairU = Keys
    /\ pairT["type"] = CatT /\ pairU["type"] = DogT
    /\ pairT["name"] = CatOrDogT /\ pairU["name"] = CatT
    /\ upcastPairs = [K \in Keys |-> IF K = "type" THEN StringT ELSE CatOrDogT]


(***************************************************************************)
(* C28. For N >= 1 inputs the result of a fold does not depend on Empty:  *)
(* whatever Empty the instantiation is given, the result is the left fold *)
(* of the inputs, and the branch that returns Empty is never reached,     *)
(* although the recursive instantiation passes no Empty on.               *)
(***************************************************************************)
ResultIgnoresEmpty ==
    Len(inputs) >= 1 =>
        /\ Len(tuple) >= 1
        /\ ~ENABLED StrictEmpty /\ ~ENABLED UpcastEmpty
        /\ pc = "done" => result = Obj(LeftFold(alias, inputs))

\* Empty = null, three inputs: the result is an object made from the inputs.
IgnoresEmptyWitness ==
    /\ pc = "done"
    /\ emptyArg = NonObj(NullT)
    /\ Len(inputs) = 3
    /\ result = Obj(LeftFold(alias, inputs))
    /\ result # Obj(EmptyObject)

(***************************************************************************)
(* C29. During a fold of N >= 2 inputs the key set of the accumulated     *)
(* object never grows: the keys after a pairwise merge are among the keys *)
(* before it (and among those of the input merged in), so a key once      *)
(* dropped does not come back, and the keys of the result are among the   *)
(* keys common to all N inputs.                                           *)
(***************************************************************************)
CommonKeys(S, n) == {k \in Keys : \A i \in 1..n : k \in DOMAIN S[i]}

KeysWithinCommon ==
    /\ (pc = "eval" /\ Len(inputs) >= 2) => DOMAIN tuple[1] \subseteq CommonKeys(inputs, merges + 1)
    /\ (pc = "done" /\ Len(inputs) >= 2) => DOMAIN result[2] \subseteq CommonKeys(inputs, Len(inputs))

KeysShrinkStep ==
    (pc = "eval" /\ Len(tuple) >= 2) =>
        DOMAIN Accumulated \subseteq DOMAIN tuple[1] \cap DOMAIN tuple[2]

KeySetNeverGrows == []KeysWithinCommon /\ [][KeysShrinkStep]_vars

\* "type" is dropped by the first merge ('cat' with 1) and stays dropped
\* although the third input has it again.
NeverGrowsWitness ==
    /\ pc = "done" /\ alias = "CommonUpcastProps"
    /\ Len(inputs) = 3
    /\ \A i \in 1..3 : DOMAIN inputs[i] = Keys
    /\ inputs[1]["type"] = CatT /\ inputs[2]["type"] = OneT /\ inputs[3]["type"] = CatT
    /\ DOMAIN result[2] = {"name"}

(***************************************************************************)
(* C30. Order independence of the fold: for N >= 2 inputs, folding any    *)
(* permutation of the tuple gives the same object as folding the tuple.   *)
(***************************************************************************)
Orderings(n) == {p \in [1..n -> 1..n] : \A i, j \in 1..n : p[i] = p[j] => i = j}

Permuted(S, p) == [i \in 1..Len(S) |-> S[p[i]]]

FoldOrderIndependent ==
    (pc = "done" /\ Len(inputs) >= 2) =>
        \A p \in Orderings(Len(inputs)) :
            result = Obj(LeftFold(alias, Permuted(inputs, p)))

====
